---- MODULE Spec2Model ----
(***************************************************************************)
(* Model of zsh-activate-py-environment.py: the upward directory walk that *)
(* finds the nearest environment marker, the .linked_env codec, the        *)
(* command dispatcher and the four sub-commands (activate, deactivate,     *)
(* link, unlink).  Python strings are TLA+ strings; the string functions   *)
(* the program calls (os.path.split/join/abspath, str.split, str.strip)    *)
(* are operators computed character by character.                          *)
(***************************************************************************)
EXTENDS Integers, Sequences, FiniteSets, TLC

\* ------------------------------------------------------------------ bounds
MaxDepth == 1      \* depth of the deepest directory below the root
MaxFiles == 2      \* directory entries in the whole tree (command-line runs)
MaxMarkers == 3    \* directory entries in the whole tree (resolver inputs)
MaxWalkMarkers == 1 \* directory entries in the whole tree (termination runs)

\* --------------------------------------------------------------- constants
CONDA_TYPE == "conda"
VENV_TYPE == "venv"
POETRY_TYPE == "poetry"
LINKED_TYPE == "linked"

SUPPORTED_ENVIRONMENT_TYPES == <<CONDA_TYPE, VENV_TYPE, POETRY_TYPE>>

LINKED_ENV_FILES == <<".linked_env">>
POETRY_FILES == <<"poetry.lock", "pyproject.toml">>
VENV_FILES == <<"venv", ".venv">>
CONDA_FILES == <<"environment.yaml", "environment.yml">>

Range(s) == {s[i] : i \in 1..Len(s)}

TYPE_TO_FILES ==
    (LINKED_TYPE :> LINKED_ENV_FILES) @@ (POETRY_TYPE :> POETRY_FILES) @@
    (VENV_TYPE :> VENV_FILES) @@ (CONDA_TYPE :> CONDA_FILES)

AllFiles == UNION {Range(TYPE_TO_FILES[t]) : t \in DOMAIN TYPE_TO_FILES}

FILE_TO_TYPE ==
    [f \in AllFiles |-> CHOOSE t \in DOMAIN TYPE_TO_FILES : f \in Range(TYPE_TO_FILES[t])]

DefaultPriority == <<CONDA_TYPE, LINKED_TYPE, POETRY_TYPE, VENV_TYPE>>

EPERM == 1
ENOENT == 2
EEXIST == 17
EINVAL == 22

RED == "RED"
GREEN == "GREEN"
GRAY == "GRAY"

\* ---------------------------------------------------------- string helpers
Char(s, i) == SubSeq(s, i, i)

Max(S) == CHOOSE m \in S : \A n \in S : n <= m

StartsWith(s, p) == Len(s) >= Len(p) /\ SubSeq(s, 1, Len(p)) = p

EndsWith(s, p) == Len(s) >= Len(p) /\ SubSeq(s, Len(s) - Len(p) + 1, Len(s)) = p

\* str.split(sep) for a one-character separator: the list of fields
RECURSIVE StrSplit(_, _)
StrSplit(s, sep) ==
    LET I == {i \in 1..Len(s) : Char(s, i) = sep}
    IN  IF I = {} THEN <<s>>
        ELSE LET i == Max(I)
             IN  Append(StrSplit(SubSeq(s, 1, i - 1), sep), SubSeq(s, i + 1, Len(s)))

Whitespace == {" ", "\t", "\n", "\r"}

RECURSIVE LStrip(_, _)
LStrip(s, chars) ==
    IF Len(s) > 0 /\ Char(s, 1) \in chars THEN LStrip(SubSeq(s, 2, Len(s)), chars) ELSE s

RECURSIVE RStrip(_, _)
RStrip(s, chars) ==
    IF Len(s) > 0 /\ Char(s, Len(s)) \in chars THEN RStrip(SubSeq(s, 1, Len(s) - 1), chars) ELSE s

\* str.strip()
StrStrip(s) == LStrip(RStrip(s, Whitespace), Whitespace)

RECURSIVE StrJoin(_, _)
StrJoin(sep, parts) ==
    IF Len(parts) = 0 THEN ""
    ELSE IF Len(parts) = 1 THEN parts[1]
    ELSE parts[1] \o sep \o StrJoin(sep, Tail(parts))

\* a variant that strips the trailing slashes of the head unconditionally
PathSplit_StripsRoot(p) ==
    LET I == {i \in 1..Len(p) : Char(p, i) = "/"}
        i == IF I = {} THEN 0 ELSE Max(I)
    IN  <<RStrip(SubSeq(p, 1, i), {"/"}), SubSeq(p, i + 1, Len(p))>>

\* os.path.split: (head, tail)
PathSplit(p) ==
    LET I == {i \in 1..Len(p) : Char(p, i) = "/"}
        i == IF I = {} THEN 0 ELSE Max(I)
        head == SubSeq(p, 1, i)
        tail == SubSeq(p, i + 1, Len(p))
        allSlashes == \A k \in 1..Len(head) : Char(head, k) = "/"
    IN  <<IF head # "" /\ ~allSlashes THEN RStrip(head, {"/"}) ELSE head, tail>>

\* os.path.join(a, b)
PathJoin(a, b) ==
    IF StartsWith(b, "/") THEN b
    ELSE IF a = "" \/ EndsWith(a, "/") THEN a \o b
    ELSE a \o "/" \o b

\* the component loop of os.path.normpath
RECURSIVE NormComps(_, _, _)
NormComps(comps, acc, initialSlashes) ==
    IF Len(comps) = 0 THEN acc
    ELSE LET c == Head(comps)
             rest == Tail(comps)
         IN  IF c \in {"", "."} THEN NormComps(rest, acc, initialSlashes)
             ELSE IF \/ c # ".."
                     \/ (initialSlashes = 0 /\ Len(acc) = 0)
                     \/ (Len(acc) > 0 /\ acc[Len(acc)] = "..")
                  THEN NormComps(rest, Append(acc, c), initialSlashes)
             ELSE IF Len(acc) > 0
                  THEN NormComps(rest, SubSeq(acc, 1, Len(acc) - 1), initialSlashes)
             ELSE NormComps(rest, acc, initialSlashes)

\* os.path.normpath
NormPath(path) ==
    IF path = "" THEN "."
    ELSE LET initialSlashes ==
                 IF ~StartsWith(path, "/") THEN 0
                 ELSE IF StartsWith(path, "//") /\ ~StartsWith(path, "///") THEN 2
                 ELSE 1
             comps == NormComps(StrSplit(path, "/"), <<>>, initialSlashes)
             joined == StrJoin("/", comps)
             full == IF initialSlashes = 2 THEN "//" \o joined
                     ELSE IF initialSlashes = 1 THEN "/" \o joined
                     ELSE joined
         IN  IF full = "" THEN "." ELSE full

\* os.path.abspath relative to the working directory wd
AbsPath(wd, path) ==
    NormPath(IF StartsWith(path, "/") THEN path ELSE PathJoin(wd, path))

\* ------------------------------------------------------------- file system
RECURSIVE DirAt(_)
DirAt(n) == IF n = 0 THEN "/" ELSE IF n = 1 THEN "/d" ELSE DirAt(n - 1) \o "/d"

Dirs == {DirAt(n) : n \in 0..MaxDepth}

Absent == [kind |-> "absent", content |-> ""]
DirNode == [kind |-> "dir", content |-> ""]
FileNode(c) == [kind |-> "file", content |-> c]

VARIABLES
    listing,     \* listing[d]: the entries os.listdir(d) returns
    linkfile,    \* linkfile[d]: the node d/.linked_env
    cwd,         \* os.getcwd()
    pc,          \* "idle" | "walk" | "resolved" | "done"
    cmd,         \* the running sub-command and its arguments
    directory,   \* parameter `directory` of the running resolver call
    priority,    \* parameter `priority` of the running resolver call
    visited,     \* the directories the resolver has listed, in order
    result,      \* what the resolver returned
    stdout,      \* lines written by __return_command
    stderr,      \* messages written by __print_information
    spawned,     \* argument vectors handed to subprocess.run
    handled,     \* the (type, locator) pairs __handle_environment_file got
    status       \* exit status of the process ("running" until it ends)

vars == <<listing, linkfile, cwd, pc, cmd, directory, priority, visited, result,
          stdout, stderr, spawned, handled, status>>

IsDir(p) == p \in Dirs

ListDir(d) == listing[d]

Count(l) == LET RECURSIVE Sum(_)
                Sum(D) == IF D = {} THEN 0
                          ELSE LET d == CHOOSE x \in D : TRUE
                               IN  Cardinality(l[d]) + Sum(D \ {d})
            IN  Sum(Dirs)

NoResult == <<>>
NoCmd == [op |-> "none", environment_type |-> "", name_or_path |-> "",
          VIRTUAL_ENV |-> "", CONDA_DEFAULT_ENV |-> "", installed |-> {}, env_file |-> ""]

\* ---------------------------------------------------------------- messages
\* __print_information: the banner prefix goes on the first message only
PrintInformation(err, message, flush, color) ==
    Append(err, [prefix |-> (err = <<>>), color |-> color, message |-> message, flush |-> flush])

PrintSuccess(err, message, flush) == PrintInformation(err, message, flush, GREEN)

\* __print_error_and_fail prints with flush=True in RED and then exits
PrintError(err, message) == PrintInformation(err, message, TRUE, RED)

\* ----------------------------------------------------------------- resolver
RECURSIVE FirstPresent(_, _)
FirstPresent(files, content) ==
    IF Len(files) = 0 THEN ""
    ELSE IF Head(files) \in content THEN Head(files)
    ELSE FirstPresent(Tail(files), content)

\* a variant that lets the last kind of the priority list win
RECURSIVE FindInLevel_LastKindWins(_, _)
FindInLevel_LastKindWins(prio, content) ==
    IF Len(prio) = 0 THEN ""
    ELSE LET f == FirstPresent(TYPE_TO_FILES[prio[Len(prio)]], content)
         IN  IF f # "" THEN f ELSE FindInLevel_LastKindWins(SubSeq(prio, 1, Len(prio) - 1), content)

\* the two nested loops over priority and the files of each type
RECURSIVE FindInLevel(_, _)
FindInLevel(prio, content) ==
    IF Len(prio) = 0 THEN ""
    ELSE LET f == FirstPresent(TYPE_TO_FILES[Head(prio)], content)
         IN  IF f # "" THEN f ELSE FindInLevel(Tail(prio), content)

\* a variant that lists the parent of the directory it was asked about
LevelMatch_ListsParent(dir, prio) == FindInLevel(prio, ListDir(PathSplit(dir)[1]))

\* the match in one directory level: listdir, then the loops
LevelMatch(dir, prio) == FindInLevel(prio, ListDir(dir))

PriorityIsValid(prio) == \A i \in 1..Len(prio) : prio[i] \in DOMAIN TYPE_TO_FILES

\* one call of __find_nearest_environment_file on `directory`
WalkStep ==
    /\ pc = "walk"
    /\ IF ~PriorityIsValid(priority)
       THEN /\ stderr' = PrintError(stderr, "Only the following environment types are supported!")
            /\ status' = EINVAL
            /\ pc' = "done"
            /\ UNCHANGED <<directory, visited, result>>
       ELSE IF ~IsDir(directory)
       THEN /\ stderr' = PrintError(stderr, "Parameter directory need to be a valid directory!")
            /\ status' = EINVAL
            /\ pc' = "done"
            /\ UNCHANGED <<directory, visited, result>>
       ELSE LET f == LevelMatch(directory, priority)
                sp == PathSplit(directory)
            IN  /\ visited' = Append(visited, directory)
                /\ IF f # ""
                   THEN /\ result' = <<FILE_TO_TYPE[f], PathJoin(directory, f)>>
                        /\ pc' = "resolved"
                        /\ UNCHANGED directory
                   ELSE IF sp[2] # ""
                   THEN /\ directory' = sp[1]
                        /\ UNCHANGED <<result, pc>>
                   ELSE /\ result' = NoResult
                        /\ pc' = "resolved"
                        /\ UNCHANGED directory
                /\ UNCHANGED <<stderr, status>>
    /\ UNCHANGED <<listing, linkfile, cwd, cmd, priority, stdout, spawned, handled>>

\* a direct call __find_nearest_environment_file(directory=d, priority=p)
Kinds == DOMAIN TYPE_TO_FILES

RECURSIVE Perms(_)
Perms(S) == IF S = {} THEN {<<>>}
            ELSE UNION {{<<x>> \o p : p \in Perms(S \ {x})} : x \in S}

\* the duplicate-free lists of all four kinds and of at most two of them
Priorities == UNION {Perms(S) : S \in {T \in SUBSET Kinds : Cardinality(T) \in {0, 1, 2, Cardinality(Kinds)}}}

ResolveCall(d, p) ==
    /\ pc = "idle"
    /\ pc' = "walk"
    /\ cmd' = [NoCmd EXCEPT !.op = "resolve"]
    /\ directory' = d
    /\ priority' = p
    /\ visited' = <<>>
    /\ result' = NoResult
    /\ stdout' = <<>>
    /\ stderr' = <<>>
    /\ spawned' = <<>>
    /\ handled' = <<>>
    /\ status' = "running"
    /\ UNCHANGED <<listing, linkfile, cwd>>

Slots == Dirs \X (AllFiles \ Range(LINKED_ENV_FILES))
LinkSlots == Dirs \X Range(LINKED_ENV_FILES)

RECURSIVE SlotSets(_)
SlotSets(k) == IF k = 0 THEN {{}}
               ELSE LET S == SlotSets(k - 1)
                    IN  S \cup {s \cup {x} : s \in S, x \in Slots \cup LinkSlots}

InitProc ==
    /\ pc = "idle"
    /\ cmd = NoCmd
    /\ directory = ""
    /\ priority = <<>>
    /\ visited = <<>>
    /\ result = NoResult
    /\ stdout = <<>>
    /\ stderr = <<>>
    /\ spawned = <<>>
    /\ handled = <<>>
    /\ status = "running"

\* resolver inputs: any tree with at most MaxMarkers entries
InitResolve ==
    /\ \E S \in SlotSets(MaxMarkers) :
          /\ listing = [d \in Dirs |-> {f \in AllFiles : <<d, f>> \in S}]
          /\ linkfile = [d \in Dirs |-> IF <<d, ".linked_env">> \in S
                                        THEN FileNode("venv;/e") ELSE Absent]
    /\ cwd = "/"
    /\ InitProc

\* the call is over (it returned or the process exited): back to the caller
Return ==
    /\ \/ pc = "done"
       \/ pc = "resolved" /\ cmd.op = "resolve"
    /\ pc' = "idle"
    /\ cmd' = NoCmd
    /\ directory' = ""
    /\ priority' = <<>>
    /\ visited' = <<>>
    /\ result' = NoResult
    /\ stdout' = <<>>
    /\ stderr' = <<>>
    /\ spawned' = <<>>
    /\ handled' = <<>>
    /\ status' = "running"
    /\ UNCHANGED <<listing, linkfile, cwd>>

NextResolve ==
    \/ \E d \in Dirs, p \in Priorities : ResolveCall(d, p)
    \/ WalkStep
    \/ Return

SpecResolve == InitResolve /\ [][NextResolve]_vars

\* the same calls on trees with at most MaxWalkMarkers entries; a started
\* call keeps running until it returns
InitWalk ==
    /\ \E S \in SlotSets(MaxWalkMarkers) :
          /\ listing = [d \in Dirs |-> {f \in AllFiles : <<d, f>> \in S}]
          /\ linkfile = [d \in Dirs |-> IF <<d, ".linked_env">> \in S
                                        THEN FileNode("venv;/e") ELSE Absent]
    /\ cwd = "/"
    /\ InitProc

FairSpecWalk == InitWalk /\ [][NextResolve]_vars /\ WF_vars(WalkStep)

\* ------------------------------------------------------------ link codec
ParseFailure(code, message) ==
    [ok |-> FALSE, code |-> code, message |-> message, type |-> "", locator |-> ""]

\* the node a path names (only .linked_env nodes carry content)
LinkNodeAt(path) ==
    IF \E d \in Dirs : PathJoin(d, LINKED_ENV_FILES[1]) = path
    THEN linkfile[CHOOSE d \in Dirs : PathJoin(d, LINKED_ENV_FILES[1]) = path]
    ELSE Absent

\* __parse_linked_environment_file
ParseLinkedEnvironmentFile(linked_environment_file) ==
    LET node == LinkNodeAt(linked_environment_file)
        fields == StrSplit(node.content, ";")
    IN  IF node.kind # "file"
        THEN ParseFailure(ENOENT, "Found linked environment file is not a file.")
        ELSE IF Len(fields) # 2
        THEN ParseFailure(EPERM, "Something went wrong! Is the linked environment file malformed?")
        ELSE IF fields[1] \notin Range(SUPPORTED_ENVIRONMENT_TYPES)
        THEN ParseFailure(EINVAL, "The given environment type in the linked environment file is not supported.")
        ELSE [ok |-> TRUE, code |-> 0, message |-> "",
              type |-> StrStrip(fields[1]), locator |-> StrStrip(fields[2])]

\* ------------------------------------------------------ conda name extractor
RECURSIVE TakeName(_)
TakeName(s) ==
    IF Len(s) = 0 \/ Char(s, 1) \in (Whitespace \cup {"/", ":", "#"}) THEN ""
    ELSE Char(s, 1) \o TakeName(SubSeq(s, 2, Len(s)))

\* re.match(YAML_ENV_NAME_REGEX, line): <<matched, group 1>>
MatchEnvName(line) ==
    LET a == LStrip(line, Whitespace)
    IN  IF StartsWith(a, "name:")
        THEN <<TRUE, TakeName(LStrip(SubSeq(a, 6, Len(a)), Whitespace))>>
        ELSE <<FALSE, "">>

RECURSIVE FirstNameLine(_)
FirstNameLine(lines) ==
    IF Len(lines) = 0 THEN <<FALSE, "">>
    ELSE IF MatchEnvName(Head(lines))[1] THEN MatchEnvName(Head(lines))
    ELSE FirstNameLine(Tail(lines))

\* __parse_conda_env_file_and_get_name on a file with the given content, by
\* the line scan (the yaml module is not loaded)
ParseCondaEnvFile(content) == FirstNameLine(StrSplit(content, "\n"))

\* os.path.isfile for the entries the tree holds (venv entries are directories)
IsFile(path) ==
    \E d \in Dirs : \E f \in listing[d] :
        /\ PathJoin(d, f) = AbsPath(cwd, path)
        /\ f \notin Range(VENV_FILES)
        /\ f \in Range(LINKED_ENV_FILES) => linkfile[d].kind = "file"

\* ---------------------------------------------------------------- dispatcher
Tools == {"conda", "poetry", "source"}
CondaFileContents == {"name: e", ""}

ActivationMessage(err, environment_type) ==
    PrintInformation(err, "Try to activate '" \o environment_type \o "' environment ...", TRUE, GRAY)

\* __check_dependencies, as the message it leaves when the command is missing
MissingDependency(err, command) ==
    PrintInformation(err, "Necessary dependency '" \o command \o "' not installed, omitting this!", FALSE, GRAY)

\* subprocess.run(argv): the interpreter ends with a traceback when the
\* executable is not on the PATH
Run(st, argv, installed) ==
    IF argv[1] \in installed
    THEN [st EXCEPT !.spawned = Append(@, argv)]
    ELSE [st EXCEPT !.stderr = Append(@, [prefix |-> FALSE, color |-> "", flush |-> FALSE,
                                           message |-> "Traceback: FileNotFoundError"]),
                    !.status = 1]

Fail(st, message, code) == [st EXCEPT !.stderr = PrintError(@, message), !.status = code]

\* __handle_environment_file; st holds the streams, the spawned commands,
\* the calls seen so far and the exit status
RECURSIVE HandleEnvironmentFile(_, _, _, _, _)
HandleEnvironmentFile(type_, loc, st0, installed, envContent) ==
    LET st == [st0 EXCEPT !.handled = Append(@, <<type_, loc>>)]
    IN  IF type_ = LINKED_TYPE
        THEN LET r == ParseLinkedEnvironmentFile(loc)
             IN  IF r.ok
                 THEN HandleEnvironmentFile(r.type, r.locator, st, installed, envContent)
                 ELSE Fail(st, r.message, r.code)
        ELSE IF type_ = POETRY_TYPE
        THEN IF POETRY_TYPE \in installed
             THEN Run([st EXCEPT !.stderr = ActivationMessage(@, type_)],
                      <<"poetry", "shell">>, installed)
             ELSE [st EXCEPT !.stderr = MissingDependency(@, POETRY_TYPE)]
        ELSE IF type_ = VENV_TYPE
        THEN Run([st EXCEPT !.stderr = ActivationMessage(@, type_)],
                 <<"source", loc \o "/bin/activate">>, installed)
        ELSE IF type_ = CONDA_TYPE
        THEN IF CONDA_TYPE \in installed
             THEN LET m == ParseCondaEnvFile(envContent)
                      name == IF IsFile(loc) THEN m[2] ELSE loc
                  IN  IF IsFile(loc) /\ ~m[1]
                      THEN Fail(st, "Something went wrong! Is the environment file malformed?", EPERM)
                      ELSE Run([st EXCEPT !.stderr = ActivationMessage(@, "TYPE_TO_FILES")],
                               <<"conda", "activate", name>>, installed)
             ELSE [st EXCEPT !.stderr = MissingDependency(@, CONDA_TYPE)]
        ELSE Fail(st, "Something went wrong! Do not know environment type '" \o type_ \o "'.", 0)

\* ------------------------------------------------------------- sub-commands
Start(c) ==
    /\ pc = "idle"
    /\ cmd' = c
    /\ visited' = <<>>
    /\ result' = NoResult

\* activate, up to its call of the resolver with the default arguments
Activate ==
    /\ Start([NoCmd EXCEPT !.op = "activate"])
    /\ pc' = "walk"
    /\ directory' = cwd
    /\ priority' = DefaultPriority
    /\ stdout' = <<>>
    /\ stderr' = <<>>
    /\ spawned' = <<>>
    /\ handled' = <<>>
    /\ status' = "running"
    /\ UNCHANGED <<listing, linkfile, cwd>>

\* what a run of the dispatcher reads of its surroundings: the commands it
\* looks up on the PATH and, for a conda environment file, the file's content
Consulted(type_, loc) ==
    LET r == ParseLinkedEnvironmentFile(loc)
        leaf == IF type_ # LINKED_TYPE THEN type_ ELSE IF r.ok THEN r.type ELSE ""
        leafLoc == IF type_ # LINKED_TYPE THEN loc ELSE r.locator
    IN  [tools |-> IF leaf = POETRY_TYPE THEN {"poetry"}
                   ELSE IF leaf = VENV_TYPE THEN {"source"}
                   ELSE IF leaf = CONDA_TYPE THEN {"conda"}
                   ELSE {},
         envFile |-> leaf = CONDA_TYPE /\ IsFile(leafLoc)]

\* activate, from the return of the resolver to the end of the process;
\* installed: the consulted commands that are on the PATH, envContent: the
\* content of the conda environment file when one is read
Dispatch(installed, envContent) ==
    /\ pc = "resolved"
    /\ cmd.op = "activate"
    /\ LET seen == IF result = NoResult THEN [tools |-> {}, envFile |-> FALSE]
                   ELSE Consulted(result[1], result[2])
       IN  /\ installed \subseteq seen.tools
           /\ (~seen.envFile \/ "conda" \notin installed) => envContent = ""
    /\ pc' = "done"
    /\ cmd' = [cmd EXCEPT !.installed = installed, !.env_file = envContent]
    /\ LET st0 == [stdout |-> stdout, stderr |-> stderr, spawned |-> spawned,
                   handled |-> handled, status |-> 0]
           st == IF result = NoResult THEN st0
                 ELSE HandleEnvironmentFile(result[1], result[2], st0, installed, envContent)
       IN  /\ stdout' = st.stdout
           /\ stderr' = st.stderr
           /\ spawned' = st.spawned
           /\ handled' = st.handled
           /\ status' = st.status
    /\ UNCHANGED <<listing, linkfile, cwd, directory, priority, visited, result>>

\* a variant that looks at the conda indicator first
Deactivate_CondaFirst(VIRTUAL_ENV, CONDA_DEFAULT_ENV) ==
    /\ Start([NoCmd EXCEPT !.op = "deactivate", !.VIRTUAL_ENV = VIRTUAL_ENV,
                            !.CONDA_DEFAULT_ENV = CONDA_DEFAULT_ENV])
    /\ pc' = "done"
    /\ stdout' = IF CONDA_DEFAULT_ENV # "" /\ CONDA_DEFAULT_ENV # "base" THEN <<"conda deactivate">>
                 ELSE IF VIRTUAL_ENV # "" THEN <<"deactivate">>
                 ELSE <<>>
    /\ stderr' = <<>>
    /\ spawned' = <<>>
    /\ handled' = <<>>
    /\ status' = 0
    /\ UNCHANGED <<listing, linkfile, cwd, directory, priority>>

\* deactivate, with the two indicators of the process environment
Deactivate(VIRTUAL_ENV, CONDA_DEFAULT_ENV) ==
    /\ Start([NoCmd EXCEPT !.op = "deactivate", !.VIRTUAL_ENV = VIRTUAL_ENV,
                            !.CONDA_DEFAULT_ENV = CONDA_DEFAULT_ENV])
    /\ pc' = "done"
    /\ stdout' = IF VIRTUAL_ENV # "" THEN <<"deactivate">>
                 ELSE IF CONDA_DEFAULT_ENV # "" /\ CONDA_DEFAULT_ENV # "base" THEN <<"conda deactivate">>
                 ELSE <<>>
    /\ stderr' = <<>>
    /\ spawned' = <<>>
    /\ handled' = <<>>
    /\ status' = 0
    /\ UNCHANGED <<listing, linkfile, cwd, directory, priority>>

\* the record link writes
LinkRecord(environment_type, name_or_path) ==
    IF environment_type = VENV_TYPE
    THEN environment_type \o ";" \o AbsPath(cwd, name_or_path)
    ELSE environment_type \o ";" \o name_or_path

\* a variant that writes the record without looking for an existing one
Link_Overwrites(environment_type, name_or_path) ==
    /\ Start([NoCmd EXCEPT !.op = "link", !.environment_type = environment_type,
                            !.name_or_path = name_or_path])
    /\ pc' = "done"
    /\ LINKED_ENV_FILES[1] \in ListDir(cwd) \/ Count(listing) < MaxFiles
    /\ listing' = [listing EXCEPT ![cwd] = @ \cup {LINKED_ENV_FILES[1]}]
    /\ linkfile' = [linkfile EXCEPT ![cwd] = FileNode(LinkRecord(environment_type, name_or_path))]
    /\ stderr' = PrintSuccess(<<>>, "Directory linked!", TRUE)
    /\ status' = 0
    /\ stdout' = <<>>
    /\ spawned' = <<>>
    /\ handled' = <<>>
    /\ UNCHANGED <<cwd, directory, priority>>

\* link <venv|conda> <name_or_path>
Link(environment_type, name_or_path) ==
    /\ Start([NoCmd EXCEPT !.op = "link", !.environment_type = environment_type,
                            !.name_or_path = name_or_path])
    /\ pc' = "done"
    /\ IF \E i \in 1..Len(LINKED_ENV_FILES) : LINKED_ENV_FILES[i] \in ListDir(cwd)
       THEN /\ stderr' = PrintError(<<>>, "This directory is already linked!")
            /\ status' = EEXIST
            /\ UNCHANGED <<listing, linkfile>>
       ELSE /\ Count(listing) < MaxFiles
            /\ listing' = [listing EXCEPT ![cwd] = @ \cup {LINKED_ENV_FILES[1]}]
            /\ linkfile' = [linkfile EXCEPT
                               ![cwd] = FileNode(LinkRecord(environment_type, name_or_path))]
            /\ stderr' = PrintSuccess(<<>>, "Directory linked!", TRUE)
            /\ status' = 0
    /\ stdout' = <<>>
    /\ spawned' = <<>>
    /\ handled' = <<>>
    /\ UNCHANGED <<cwd, directory, priority>>

\* a variant that removes the entry whenever the directory lists it, and
\* treats a missing entry like a present one
Unlink_IgnoresIsFile ==
    /\ Start([NoCmd EXCEPT !.op = "unlink"])
    /\ pc' = "done"
    /\ IF linkfile[cwd].kind = "absent"
       THEN /\ stderr' = <<[prefix |-> FALSE, color |-> "", flush |-> FALSE,
                            message |-> "Traceback: FileNotFoundError"]>>
            /\ status' = 1
            /\ UNCHANGED <<listing, linkfile>>
       ELSE /\ listing' = [listing EXCEPT ![cwd] = @ \ {LINKED_ENV_FILES[1]}]
            /\ linkfile' = [linkfile EXCEPT ![cwd] = Absent]
            /\ stderr' = PrintSuccess(<<>>, "Directory unlinked!", TRUE)
            /\ status' = 0
    /\ stdout' = <<>>
    /\ spawned' = <<>>
    /\ handled' = <<>>
    /\ UNCHANGED <<cwd, directory, priority>>

\* unlink
Unlink ==
    /\ Start([NoCmd EXCEPT !.op = "unlink"])
    /\ pc' = "done"
    /\ LET found == {i \in 1..Len(LINKED_ENV_FILES) : linkfile[cwd].kind = "file"}
       IN  IF found # {}
           THEN /\ listing' = [listing EXCEPT ![cwd] = @ \ {LINKED_ENV_FILES[i] : i \in found}]
                /\ linkfile' = [linkfile EXCEPT ![cwd] = Absent]
                /\ stderr' = PrintSuccess(<<>>, "Directory unlinked!", TRUE)
           ELSE /\ UNCHANGED <<listing, linkfile>>
                /\ stderr' = PrintSuccess(
                       PrintInformation(<<>>,
                           "No file found that explicitly links this directory, looked for: "
                               \o StrJoin(", ", LINKED_ENV_FILES), FALSE, GRAY),
                       "Directory unlinked!", TRUE)
    /\ status' = 0
    /\ stdout' = <<>>
    /\ spawned' = <<>>
    /\ handled' = <<>>
    /\ UNCHANGED <<cwd, directory, priority>>

\* ------------------------------------------------- the user between two runs
AtPrompt ==
    /\ pc = "idle"
    /\ UNCHANGED <<pc, cmd, directory, priority, visited, result,
                   stdout, stderr, spawned, handled, status>>

\* cd d
Chdir(d) ==
    /\ AtPrompt
    /\ d # cwd
    /\ cwd' = d
    /\ UNCHANGED <<listing, linkfile>>

\* a marker file or directory appears in d
Touch(d, f) ==
    /\ AtPrompt
    /\ f \notin listing[d]
    /\ Count(listing) < MaxFiles
    /\ listing' = [listing EXCEPT ![d] = @ \cup {f}]
    /\ UNCHANGED <<linkfile, cwd>>

\* d/.linked_env is written by hand, or made a directory
WriteLinkFile(d, node) ==
    /\ AtPrompt
    /\ linkfile[d] # node
    /\ LINKED_ENV_FILES[1] \in listing[d] \/ Count(listing) < MaxFiles
    /\ listing' = [listing EXCEPT ![d] = @ \cup {LINKED_ENV_FILES[1]}]
    /\ linkfile' = [linkfile EXCEPT ![d] = node]
    /\ UNCHANGED cwd

\* an entry of d is removed
Remove(d, f) ==
    /\ AtPrompt
    /\ f \in listing[d]
    /\ listing' = [listing EXCEPT ![d] = @ \ {f}]
    /\ linkfile' = [linkfile EXCEPT ![d] = IF f = LINKED_ENV_FILES[1] THEN Absent ELSE @]
    /\ UNCHANGED cwd

\* ------------------------------------------------------------ specification
LinkArgs == {<<VENV_TYPE, "/e">>, <<VENV_TYPE, "e">>, <<VENV_TYPE, "/e;e">>, <<CONDA_TYPE, "e">>}
VirtualEnvValues == {"", "/e"}
CondaEnvValues == {"", "base", "e"}
HandNodes == {DirNode} \cup {FileNode(c) : c \in
                {"venv;/e\n", "venv\n;/e", "linked;/e", "venv", "venv;/e;"}}

Init ==
    /\ listing = [d \in Dirs |-> {}]
    /\ linkfile = [d \in Dirs |-> Absent]
    /\ cwd = "/"
    /\ InitProc

Next ==
    \/ Activate
    \/ WalkStep
    \/ \E installed \in SUBSET Tools, c \in CondaFileContents : Dispatch(installed, c)
    \/ \E v \in VirtualEnvValues, c \in CondaEnvValues : Deactivate(v, c)
    \/ \E a \in LinkArgs : Link(a[1], a[2])
    \/ Unlink
    \/ Return
    \/ \E d \in Dirs : Chdir(d)
    \/ \E d \in Dirs, f \in AllFiles \ Range(LINKED_ENV_FILES) : Touch(d, f)
    \/ \E d \in Dirs, n \in HandNodes : WriteLinkFile(d, n)
    \/ \E d \in Dirs, f \in AllFiles : Remove(d, f)

Spec == Init /\ [][Next]_vars

\* ------------------------------------------------------ resolver properties
HasMarker(d, k) == \E f \in Range(TYPE_TO_FILES[k]) : f \in listing[d]

\* d is D or an ancestor of D
OnPathToRoot(d, D) == d \in Dirs /\ (d = D \/ d = "/" \/ StartsWith(D, d \o "/"))

ResolverReturned == pc = "resolved" /\ cmd.op = "resolve"

\* C2: when the start directory holds markers of two kinds, the resolver
\* returns the first present file of the earliest such kind of the priority
\* list, in the start directory, and never the later kind.
C2_SameLevelPriority ==
    ResolverReturned =>
        LET D == visited[1]
        IN  \A i, j \in 1..Len(priority) :
                (i < j /\ HasMarker(D, priority[i]) /\ HasMarker(D, priority[j])) =>
                    /\ result # NoResult
                    /\ result[1] # priority[j]
                    /\ \E m \in 1..Len(priority) :
                          /\ HasMarker(D, priority[m])
                          /\ \A n \in 1..(m - 1) : ~HasMarker(D, priority[n])
                          /\ result[1] = priority[m]
                          /\ LET files == TYPE_TO_FILES[priority[m]]
                             IN  \E q \in 1..Len(files) :
                                    /\ files[q] \in listing[D]
                                    /\ \A r \in 1..(q - 1) : files[r] \notin listing[D]
                                    /\ result[2] = D \o (IF D = "/" THEN "" ELSE "/") \o files[q]

\* two kinds in the start directory, the later one also in an ancestor
C2_Witness ==
    /\ ResolverReturned
    /\ \E i, j \in 1..Len(priority) :
          /\ i < j
          /\ HasMarker(visited[1], priority[i])
          /\ HasMarker(visited[1], priority[j])
          /\ \E a \in Dirs : a # visited[1] /\ OnPathToRoot(a, visited[1]) /\ HasMarker(a, priority[j])
          /\ result[1] = priority[i]

MarkedLevels(D, prio) ==
    {d \in Dirs : OnPathToRoot(d, D) /\ \E i \in 1..Len(prio) : HasMarker(d, prio[i])}

\* C3: the returned locator is an entry of the nearest directory, from the
\* start directory towards the root, that holds a marker of a kind of the
\* priority list, whatever the kinds found further up.
C3_NearestLevelWins ==
    ResolverReturned =>
        LET L == MarkedLevels(visited[1], priority)
        IN  IF L = {} THEN result = NoResult
            ELSE LET nearest == CHOOSE d \in L : \A e \in L : Len(e) <= Len(d)
                 IN  /\ result # NoResult
                     /\ \E f \in listing[nearest] :
                           /\ result[2] = nearest \o (IF nearest = "/" THEN "" ELSE "/") \o f
                           /\ FILE_TO_TYPE[f] = result[1]
                           /\ \E i \in 1..Len(priority) : priority[i] = result[1]

\* a later kind in the start directory beats an earlier kind in an ancestor
C3_Witness ==
    /\ ResolverReturned
    /\ result # NoResult
    /\ \E i, j \in 1..Len(priority) :
          /\ i < j
          /\ result[1] = priority[j]
          /\ ~HasMarker(visited[1], priority[i])
          /\ \E a \in Dirs : a # visited[1] /\ OnPathToRoot(a, visited[1]) /\ HasMarker(a, priority[i])

NoDuplicates(s) == \A i, j \in 1..Len(s) : i # j => s[i] # s[j]

\* C9: a resolver call lists each directory between the start directory and
\* the root at most once, it ends, and it ends with "none" and no error when
\* no directory on that path holds a marker file.
C9_WalkTerminates ==
    /\ [](cmd.op = "resolve" =>
            /\ NoDuplicates(visited)
            /\ \A i \in 1..Len(visited) : OnPathToRoot(visited[i], visited[1])
            /\ (pc = "walk" /\ visited # <<>>) => OnPathToRoot(directory, visited[1])
            /\ (pc # "walk" /\ \A d \in Dirs : OnPathToRoot(d, visited[1]) => listing[d] = {}) =>
                    (pc = "resolved" /\ result = NoResult /\ status = "running"))
    /\ ((pc = "walk") ~> (pc = "resolved"))

\* the walk went from the deepest directory to the root and found nothing
C9_Witness ==
    /\ ResolverReturned
    /\ result = NoResult
    /\ Len(visited) = MaxDepth + 1
    /\ visited[Len(visited)] = "/"

\* ------------------------------------------------- command-line properties
ActivateEnded == pc = "done" /\ cmd.op = "activate"

LinkPathOfCwd == cwd \o (IF cwd = "/" THEN "" ELSE "/") \o ".linked_env"

\* the working directory holds a record as link writes it: <kind>;<locator>
\* with kind venv or conda
HoldsLinkRecord(kind, locator) ==
    /\ linkfile[cwd].kind = "file"
    /\ linkfile[cwd].content = kind \o ";" \o locator
    /\ kind \in {"venv", "conda"}
    /\ \A i \in 1..Len(locator) : Char(locator, i) \notin (Whitespace \cup {";"})

LinkedLocators == {"/e", "e", "/d/e"}

\* C1: when the working directory holds a link record (K, L), an activate run
\* there hands (K, L) to the dispatcher, whatever other markers the directory
\* holds.
C1_LinkOverridesDetection ==
    ActivateEnded =>
        \A K \in {"venv", "conda"}, L \in LinkedLocators :
            HoldsLinkRecord(K, L) =>
                /\ Len(handled) = 2
                /\ handled[1] = <<LINKED_TYPE, LinkPathOfCwd>>
                /\ handled[2] = <<K, L>>

\* C4: an activate run that ends in a venv environment with locator L writes
\* the one line "source L/bin/activate" to the primary output stream.
C4_VenvEmitsSourceCommand ==
    (ActivateEnded /\ handled # <<>> /\ handled[Len(handled)][1] = VENV_TYPE) =>
        stdout = <<"source " \o handled[Len(handled)][2] \o "/bin/activate">>

\* C5: link in a directory that lists .linked_env ends with EEXIST and leaves
\* the tree, the content of .linked_env included, as it was.
C5_LinkOnLinkedFails ==
    [][(pc = "idle" /\ pc' = "done" /\ cmd'.op = "link" /\ ".linked_env" \in listing[cwd]) =>
          (status' = EEXIST /\ listing' = listing /\ linkfile' = linkfile)]_vars

\* link was refused where its own record would have differed from the old one
C5_Witness ==
    /\ pc = "done"
    /\ cmd.op = "link"
    /\ status = EEXIST
    /\ linkfile[cwd].kind = "file"
    /\ linkfile[cwd].content # cmd.environment_type \o ";" \o cmd.name_or_path
    /\ cmd.name_or_path = "/e"

\* C6: unlink in a directory without a link file ends with status 0, reports
\* a notice and leaves the tree as it was.
C6_UnlinkWithoutLink ==
    [][(pc = "idle" /\ pc' = "done" /\ cmd'.op = "unlink" /\ linkfile[cwd].kind # "file") =>
          /\ status' = 0
          /\ listing' = listing
          /\ linkfile' = linkfile
          /\ \E i \in 1..Len(stderr') : stderr'[i].color = GRAY]_vars

\* unlink ran in a directory that has entries but no link file
C6_Witness ==
    /\ pc = "done"
    /\ cmd.op = "unlink"
    /\ status = 0
    /\ linkfile[cwd].kind # "file"
    /\ listing[cwd] # {}
    /\ Len(stderr) = 2

\* C7: link venv L with an absolute L in an unlinked directory, then a read
\* of that directory's .linked_env, gives back (venv, L).
C7_LinkRoundTrip ==
    (pc = "done" /\ cmd.op = "link" /\ status = 0 /\ cmd.environment_type = VENV_TYPE
        /\ Len(cmd.name_or_path) > 0 /\ Char(cmd.name_or_path, 1) = "/") =>
        LET r == ParseLinkedEnvironmentFile(LinkPathOfCwd)
        IN  r.ok /\ r.type = "venv" /\ r.locator = cmd.name_or_path

\* C8: deactivate writes at most one command: "deactivate" when VIRTUAL_ENV
\* is set, else "conda deactivate" when CONDA_DEFAULT_ENV is set and is not
\* "base", else nothing.
C8_DeactivateOrder ==
    (pc = "done" /\ cmd.op = "deactivate") =>
        /\ Len(stdout) <= 1
        /\ cmd.VIRTUAL_ENV # "" => stdout = <<"deactivate">>
        /\ (cmd.VIRTUAL_ENV = "" /\ cmd.CONDA_DEFAULT_ENV \notin {"", "base"}) =>
               stdout = <<"conda deactivate">>
        /\ (cmd.VIRTUAL_ENV = "" /\ cmd.CONDA_DEFAULT_ENV \in {"", "base"}) => stdout = <<>>

\* both indicators are set and the conda one names a real environment
C8_Witness ==
    /\ pc = "done"
    /\ cmd.op = "deactivate"
    /\ cmd.VIRTUAL_ENV # ""
    /\ cmd.CONDA_DEFAULT_ENV \notin {"", "base"}
    /\ stdout = <<"deactivate">>

\* C10: a read of a link file fails as malformed exactly when the content has
\* not two ;-separated fields or the trimmed first field is no activatable
\* kind; otherwise it returns the trimmed (kind, locator).
C10_ReadDecidesOnTrimmedKind ==
    (ActivateEnded /\ handled # <<>> /\ handled[1] = <<LINKED_TYPE, LinkPathOfCwd>>
        /\ linkfile[cwd].kind = "file") =>
        LET fields == StrSplit(linkfile[cwd].content, ";")
            malformed == \/ Len(fields) # 2
                         \/ StrStrip(fields[1]) \notin {"conda", "venv", "poetry"}
        IN  IF malformed
            THEN Len(handled) = 1 /\ status \in {EPERM, EINVAL}
            ELSE Len(handled) = 2 /\ handled[2] = <<StrStrip(fields[1]), StrStrip(fields[2])>>

====
